---------------------------- MODULE Spec2Model ----------------------------
(***************************************************************************)
(* A model of src/classifier.hpp: the balanced training sampler            *)
(* (getTrainingData) and the per-point inference with its label writeback  *)
(* (classifyData).                                                         *)
(*                                                                         *)
(* Conventions.                                                            *)
(*  - Arrays are functions over 0..n-1, as in the source; std::vector      *)
(*    values that are only appended to and iterated are sequences.         *)
(*  - Arguments and the results of external calls (readPointSet, the       *)
(*    evaluator callback, the kd-tree searches, the point map) are inputs. *)
(*    An input is bound by the action that models the first statement      *)
(*    reading it; nothing reads it earlier, so the behaviours are those    *)
(*    of binding it on entry.                                              *)
(*  - double/float values are integers on a fixed scale; only their order, *)
(*    their sums, equality with a sentinel and being zero are used.        *)
(*  - An OpenMP loop is a set of iterations, each "todo", "run" or "done", *)
(*    of which at most NumThreads run at a time.  An iteration reads when  *)
(*    it starts and writes when it ends; the implicit barrier at the end   *)
(*    of the loop waits for all of them.                                   *)
(*  - Statistics (stats.record, the evaluate flag) and the colour values   *)
(*    are outside the model: no modelled statement reads them.             *)
(***************************************************************************)
EXTENDS Integers, Sequences, FiniteSets

(***************************************************************************)
(* Bounds of the model.                                                    *)
(***************************************************************************)
\* files given to getTrainingData
MaxFiles == 2
\* surface points of a training file
TrainPts == 3
\* points of the working set (base) of the point set given to classifyData
NumBase == 2
\* largest value of the maxSamples argument that is tried
MaxSamples == 2
\* surface points of the point set given to classifyData
NumSurface == 2
\* probabilities are k / MaxProb for k in 0..MaxProb
MaxProb == 1
\* threads of an OpenMP team
NumThreads == 2

(***************************************************************************)
(* Constants of the program.                                               *)
(***************************************************************************)
\* the "derive from the first file" value of *startResolution
StartResSentinel == -1
\* sentinels of labels.hpp: no ground truth, defaulted
LABEL_UNASSIGNED == 255
LABEL_UNCLASSIFIED == 1
\* std::vector<bool> skipMap(255, false)
SkipMapLen == 255
\* skipClass >= 0 && skipClass <= 255
SkipRangeMax == 255
\* the fill value of the Local-Smooth probability matrix
ValuesInit == -1
\* Graph-Cut
minSubdivisions == 4
neighbors == 12
\* 0.2f, in tenths
strength == 2

\* getTrainingLabels(): the ASPRS code of each training class, by training
\* code (2 = ground, 6 = building).
TrainingLabels == <<2, 6>>
Classes == 0..(Len(TrainingLabels) - 1)

\* getAsprs2TrainCodes()[c]
Asprs2Train(c) ==
    IF \E k \in Classes : TrainingLabels[k + 1] = c
    THEN CHOOSE k \in Classes : TrainingLabels[k + 1] = c
    ELSE LABEL_UNASSIGNED

Min(a, b) == IF a < b THEN a ELSE b

\* std::numeric_limits<size_t>::max(): above every count of the model
SIZE_MAX == 2147483647

None == 0 - 1

(***************************************************************************)
(* Inputs of getTrainingData.                                              *)
(***************************************************************************)
\* values of *startResolution on entry: negative but not the sentinel, the
\* sentinel, zero, positive
StartResChoices == {-2, StartResSentinel, 0, 3}
\* values of PointSet::spacing()
SpacingChoices == {1, 2}
\* the asprsClasses argument: empty (train on everything) or ground only
SubsetChoices == {<<>>, <<TrainingLabels[1]>>}

TrainLabelValues == Classes \cup {LABEL_UNASSIGNED}

\* what readPointSet can return.  The label and point-map arrays of a file
\* are drawn where the code first reads them (lines 67-79).
PointSets ==
    [hasLabels : BOOLEAN, spacing : SpacingChoices, count : {TrainPts},
     labels : {<<>>}, pointMap : {<<>>}]
LabelArrays == [0..(TrainPts - 1) -> TrainLabelValues]
\* the point maps of a file, up to a renaming of the working-set points
\* (lines 63-101 compare the indices and never order them): a working-set
\* point is numbered when the surface first reaches it
PointMaps ==
    {m \in [0..(TrainPts - 1) -> 0..(TrainPts - 1)] :
        \A i \in 0..(TrainPts - 1) :
           m[i] = 0 \/ \E j \in 0..(i - 1) : m[j] = m[i] - 1}

NoPointSet ==
    [hasLabels |-> FALSE, spacing |-> 0, count |-> 0, labels |-> <<>>,
     pointMap |-> <<>>]

(***************************************************************************)
(* Inputs of classifyData.                                                 *)
(***************************************************************************)
BasePts == 0..(NumBase - 1)
SurfacePts == 0..(NumSurface - 1)

\* what the evaluator can write to its output vector
ProbVectors == [Classes -> 0..MaxProb]

\* the regularization argument; "Invalid" is any other value of the enum type
RegularizationChoices == {"None", "LocalSmooth", "GraphCut", "Invalid"}

\* the labels argument, as the ASPRS code of each class: the training
\* labels, and a label set whose last class has the largest u8 code
LabelSets ==
    {TrainingLabels,
     [k \in 1..Len(TrainingLabels) |->
         IF k = Len(TrainingLabels) THEN SkipRangeMax ELSE TrainingLabels[k]]}

\* the skip argument for a label set: nothing; every class, with values
\* outside 0..255; every class and 255
SkipChoices(ls) ==
    {<<>>, ls \o <<0 - 1, SkipRangeMax + 1>>, ls \o <<SkipRangeMax>>}

\* values of pointSet.labels[i] on entry: training codes, LABEL_UNCLASSIFIED
SurfaceLabelValues == Classes \cup {LABEL_UNCLASSIFIED}

\* getTrain2AsprsCodes()[v] for a label set: the ASPRS code of the label
\* of training code v, and v itself outside the training codes
Train2Asprs(ls, v) == IF v \in Classes THEN ls[v + 1] ELSE v

\* nbX of the tiling; nbY follows from it
NbXChoices == {1, 2}

VARIABLES
    \* ---- getTrainingData ----
    tpc,              \* position in getTrainingData
    nfiles,           \* filenames.size(), None until the loop test fails
    fi,               \* i of the loop over the files
    startResolution,  \* *startResolution
    maxSamples,
    asprsClasses,
    trainSubset,
    trainClass,       \* the training codes c with trainClass[c] = true
    pointSet,         \* the point set of the current file
    count,
    sampled,          \* the working-set indices idx with sampled[idx] = true
    idxes,
    samplesPerLabel,
    added,
    pos,              \* position of the walk over idxes
    \* what the callbacks and computeScales were given
    initCalls,        \* number of init calls
    initAt,           \* file index of the first init call
    storeCalls,       \* per class, the store calls of the current file
    storeBeforeInit,  \* a store call was made before any init call
    scalesLog,        \* the startResolution given to each computeScales call
    \* history
    startRes0,        \* *startResolution on entry
    firstLabelled,    \* index of the first file with labels
    firstSpacing,     \* its spacing()
    \* ---- classifyData ----
    cpc,              \* position in classifyData
    regularization,
    labelSet,         \* the labels argument: ASPRS code of each class
    baseLabels,       \* pointSet.base->labels
    iter,             \* the iterations of the current OpenMP loop
    loc,              \* per running iteration, its thread's local variables
    probsOf,          \* history: what the evaluator returned, for each point
                      \* of the None sweep, for the last point of Graph-Cut
    values,           \* the Local-Smooth probability matrix
    \* Graph-Cut
    nb,
    indices,
    inputToIndices,
    sub,
    tj,               \* j of the loop over the points of tile sub
    edges,
    edgeWeights,
    probabilityMatrix,
    assignedLabel,
    knnOf,            \* history: the neighbours found for the last tile point
    \* label writeback
    useColors,
    unclassifiedOnly,
    hasLabels,        \* pointSet.hasLabels()
    surfLabels,       \* pointSet.labels
    colors,           \* pointSet.colors, as the class whose colour it holds
    skip,
    skipMap,          \* the indices below SkipMapLen holding true
    train2asprsCodes,
    \* history
    hadLabels,        \* pointSet.hasLabels() on entry
    labels0,          \* pointSet.labels on entry
    skipAccess        \* the indices the skip map was read or written at

tvars ==
    <<tpc, nfiles, fi, startResolution, maxSamples, asprsClasses, trainSubset,
      trainClass, pointSet, count, sampled, idxes, samplesPerLabel, added, pos,
      initCalls, initAt, storeCalls, storeBeforeInit, scalesLog, startRes0,
      firstLabelled, firstSpacing>>

\* classifyData: arguments and working-set labels
argVars == <<regularization, labelSet>>
\* classifyData: the OpenMP loops
ompVars == <<iter, loc, probsOf>>
\* classifyData: Graph-Cut
gcVars ==
    <<nb, indices, inputToIndices, sub, tj, edges, edgeWeights,
      probabilityMatrix, assignedLabel, knnOf>>
\* classifyData: label writeback
wbVars ==
    <<useColors, unclassifiedOnly, hasLabels, surfLabels, colors, skip,
      skipMap, train2asprsCodes, hadLabels, labels0, skipAccess>>

cvars == <<cpc, argVars, baseLabels, ompVars, values, gcVars, wbVars>>

vars == <<tvars, cvars>>

ZeroCount == [c \in Classes |-> 0]

TrainInit ==
    /\ tpc = "entry"
    /\ nfiles = None
    /\ fi = 0
    /\ startResolution \in StartResChoices
    /\ maxSamples = None
    /\ asprsClasses \in SubsetChoices
    /\ trainSubset = FALSE
    /\ trainClass = {}
    /\ pointSet = NoPointSet
    /\ count = ZeroCount
    /\ sampled = {}
    /\ idxes = <<>>
    /\ samplesPerLabel = 0
    /\ added = ZeroCount
    /\ pos = 0
    /\ initCalls = 0
    /\ initAt = None
    /\ storeCalls = ZeroCount
    /\ storeBeforeInit = FALSE
    /\ scalesLog = <<>>
    /\ startRes0 = startResolution
    /\ firstLabelled = None
    /\ firstSpacing = None

\* lines 32-42: the classes to train on
TrainEntry ==
    /\ tpc = "entry"
    /\ tpc' = "loop"
    /\ trainSubset' = (Len(asprsClasses) > 0)
    /\ trainClass' =
          IF Len(asprsClasses) > 0
          THEN {Asprs2Train(asprsClasses[k]) : k \in 1..Len(asprsClasses)}
          ELSE {}
    /\ UNCHANGED <<nfiles, fi, startResolution, maxSamples, asprsClasses,
                   pointSet, count, sampled, idxes, samplesPerLabel, added,
                   pos, initCalls, initAt, storeCalls, storeBeforeInit,
                   scalesLog, startRes0, firstLabelled, firstSpacing>>
    /\ UNCHANGED cvars

\* lines 44-50: a file without labels is skipped
ReadUnlabelled ==
    /\ tpc = "loop"
    /\ fi < MaxFiles
    /\ \E ps \in PointSets : ~ps.hasLabels
    /\ fi' = fi + 1
    /\ UNCHANGED <<tpc, nfiles, startResolution, maxSamples, asprsClasses,
                   trainSubset, trainClass, pointSet, count, sampled, idxes,
                   samplesPerLabel, added, pos, initCalls, initAt, storeCalls,
                   storeBeforeInit, scalesLog, startRes0, firstLabelled,
                   firstSpacing>>
    /\ UNCHANGED cvars

\* lines 44-50: a file with labels is processed
ReadLabelled ==
    /\ tpc = "loop"
    /\ fi < MaxFiles
    /\ \E ps \in PointSets :
          /\ ps.hasLabels
          /\ pointSet' = ps
          /\ firstLabelled' = IF firstLabelled = None THEN fi ELSE firstLabelled
          /\ firstSpacing' =
                IF firstLabelled = None THEN ps.spacing ELSE firstSpacing
    /\ tpc' = "scales"
    /\ UNCHANGED <<nfiles, fi, startResolution, maxSamples, asprsClasses,
                   trainSubset, trainClass, count, sampled, idxes,
                   samplesPerLabel, added, pos, initCalls, initAt, storeCalls,
                   storeBeforeInit, scalesLog, startRes0>>
    /\ UNCHANGED cvars

\* line 52: the test that makes the file's spacing the start resolution
DeriveResolutionNonPositive(r) == r <= 0
DeriveResolution(r) == r = StartResSentinel

\* line 61: the test that guards the init call
CallsInit(i) == i = 0

\* lines 52-61: resolution, scales, features, init
BuildScales ==
    /\ tpc = "scales"
    /\ LET res == IF DeriveResolution(startResolution)
                  THEN pointSet.spacing
                  ELSE startResolution
       IN  /\ startResolution' = res
           /\ scalesLog' = Append(scalesLog, res)
    /\ IF CallsInit(fi)
       THEN /\ initCalls' = initCalls + 1
            /\ initAt' = IF initCalls = 0 THEN fi ELSE initAt
       ELSE UNCHANGED <<initCalls, initAt>>
    /\ tpc' = "enumerate"
    /\ UNCHANGED <<nfiles, fi, maxSamples, asprsClasses, trainSubset,
                   trainClass, pointSet, count, sampled, idxes,
                   samplesPerLabel, added, pos, storeCalls, storeBeforeInit,
                   startRes0, firstLabelled, firstSpacing>>
    /\ UNCHANGED cvars

\* line 73: the dedup test on the working-set index
AlreadySampledNever(s, idx) == FALSE
AlreadySampled(s, idx) == idx \in s

\* lines 67-79: the state of the loop after the surface points below n
RECURSIVE EnumerateUpTo(_, _, _)
EnumerateUpTo(labels, pointMap, n) ==
    IF n = 0
    THEN [idxes |-> <<>>, count |-> ZeroCount, sampled |-> {}]
    ELSE LET st == EnumerateUpTo(labels, pointMap, n - 1)
             i == n - 1
             g == labels[i]
             idx == pointMap[i]
         IN  IF g = LABEL_UNASSIGNED THEN st
             ELSE IF trainSubset /\ g \notin trainClass THEN st
             ELSE IF AlreadySampled(st.sampled, idx) THEN st
             ELSE [idxes |-> Append(st.idxes, <<idx, g>>),
                   count |-> [st.count EXCEPT ![g] = @ + 1],
                   sampled |-> st.sampled \cup {idx}]

\* lines 63-79: the candidates of the file
Enumerate ==
    /\ tpc = "enumerate"
    /\ \E labels \in LabelArrays, pointMap \in PointMaps :
          LET st == EnumerateUpTo(labels, pointMap, pointSet.count)
          IN  /\ pointSet' = [pointSet EXCEPT !.labels = labels,
                                              !.pointMap = pointMap]
              /\ idxes' = st.idxes
              /\ count' = st.count
              /\ sampled' = st.sampled
    /\ tpc' = "quota"
    /\ UNCHANGED <<nfiles, fi, startResolution, maxSamples, asprsClasses,
                   trainSubset, trainClass, samplesPerLabel, added,
                   pos, initCalls, initAt, storeCalls, storeBeforeInit,
                   scalesLog, startRes0, firstLabelled, firstSpacing>>
    /\ UNCHANGED cvars

\* lines 81-84: the smallest count of a non-empty class below n
RECURSIVE MinCountUpTo(_)
MinCountUpTo(n) ==
    IF n = 0 THEN SIZE_MAX
    ELSE LET m == MinCountUpTo(n - 1)
         IN  IF count[n - 1] > 0 THEN Min(count[n - 1], m) ELSE m

\* lines 81-86: the quota per class.  The labels and the point map of the
\* file are not read from here on (lines 81-109 use idxes only); the model
\* stops carrying them.
Quota ==
    /\ tpc = "quota"
    /\ \E m \in IF maxSamples = None THEN 0..MaxSamples ELSE {maxSamples} :
          /\ maxSamples' = m
          /\ samplesPerLabel' = Min(MinCountUpTo(Len(TrainingLabels)), m)
    /\ added' = ZeroCount
    /\ storeCalls' = ZeroCount
    /\ pointSet' = [pointSet EXCEPT !.labels = <<>>, !.pointMap = <<>>]
    /\ tpc' = "shuffle"
    /\ UNCHANGED <<nfiles, fi, startResolution, asprsClasses, trainSubset,
                   trainClass, count, sampled, idxes, pos, initCalls, initAt,
                   storeBeforeInit, scalesLog, startRes0, firstLabelled,
                   firstSpacing>>
    /\ UNCHANGED cvars

ShuffleOrders(n) ==
    {p \in [1..n -> 1..n] : \A a, b \in 1..n : p[a] = p[b] => a = b}

\* lines 90-92: std::shuffle with a freshly seeded generator
Shuffle ==
    /\ tpc = "shuffle"
    /\ \E p \in ShuffleOrders(Len(idxes)) :
          idxes' = [k \in 1..Len(idxes) |-> idxes[p[k]]]
    /\ pos' = 1
    /\ tpc' = "emit"
    /\ UNCHANGED <<nfiles, fi, startResolution, maxSamples, asprsClasses,
                   trainSubset, trainClass, pointSet, count, sampled,
                   samplesPerLabel, added, initCalls, initAt, storeCalls,
                   storeBeforeInit, scalesLog, startRes0, firstLabelled,
                   firstSpacing>>
    /\ UNCHANGED cvars

\* line 97: the quota test
QuotaNotMetInclusive(a, spl) == a <= spl
QuotaNotMet(a, spl) == a < spl

\* lines 94-101: one candidate of the walk
Emit ==
    /\ tpc = "emit"
    /\ pos <= Len(idxes)
    /\ LET g == idxes[pos][2]
       IN  IF QuotaNotMet(added[g], samplesPerLabel)
           THEN /\ storeCalls' = [storeCalls EXCEPT ![g] = @ + 1]
                /\ storeBeforeInit' = (storeBeforeInit \/ initCalls = 0)
                /\ added' = [added EXCEPT ![g] = @ + 1]
           ELSE UNCHANGED <<storeCalls, storeBeforeInit, added>>
    /\ pos' = pos + 1
    /\ UNCHANGED <<tpc, nfiles, fi, startResolution, maxSamples, asprsClasses,
                   trainSubset, trainClass, pointSet, count, sampled, idxes,
                   samplesPerLabel, initCalls, initAt, scalesLog, startRes0,
                   firstLabelled, firstSpacing>>
    /\ UNCHANGED cvars

\* line 101: the walk is over
EmitDone ==
    /\ tpc = "emit"
    /\ pos > Len(idxes)
    /\ tpc' = "release"
    /\ UNCHANGED <<nfiles, fi, startResolution, maxSamples, asprsClasses,
                   trainSubset, trainClass, pointSet, count, sampled, idxes,
                   samplesPerLabel, added, pos, initCalls, initAt, storeCalls,
                   storeBeforeInit, scalesLog, startRes0, firstLabelled,
                   firstSpacing>>
    /\ UNCHANGED cvars

\* lines 103-110: report, release, next file
Release ==
    /\ tpc = "release"
    /\ pointSet' = NoPointSet
    /\ count' = ZeroCount
    /\ sampled' = {}
    /\ idxes' = <<>>
    /\ samplesPerLabel' = 0
    /\ added' = ZeroCount
    /\ storeCalls' = ZeroCount
    /\ pos' = 0
    /\ fi' = fi + 1
    /\ tpc' = "loop"
    /\ UNCHANGED <<nfiles, startResolution, maxSamples, asprsClasses,
                   trainSubset, trainClass, initCalls, initAt,
                   storeBeforeInit, scalesLog, startRes0, firstLabelled,
                   firstSpacing>>
    /\ UNCHANGED cvars

\* lines 44 and 111: the file list is over
Return ==
    /\ tpc = "loop"
    /\ nfiles' = fi
    /\ tpc' = "return"
    /\ UNCHANGED <<fi, startResolution, maxSamples, asprsClasses,
                   trainSubset, trainClass, pointSet, count, sampled, idxes,
                   samplesPerLabel, added, pos, initCalls, initAt, storeCalls,
                   storeBeforeInit, scalesLog, startRes0, firstLabelled,
                   firstSpacing>>
    /\ UNCHANGED cvars

NextTrain ==
    \/ TrainEntry
    \/ ReadUnlabelled
    \/ ReadLabelled
    \/ BuildScales
    \/ Enumerate
    \/ Quota
    \/ Shuffle
    \/ Emit
    \/ EmitDone
    \/ Release
    \/ Return


(***************************************************************************)
(* classifyData: the OpenMP loops.                                         *)
(***************************************************************************)
ZeroProbs == [c \in Classes |-> 0]
UnsetProbs == [c \in Classes |-> None]

\* the thread-local variables of an iteration that is not running
NoLoc ==
    [probs |-> ZeroProbs, numMatches |-> 0, best |-> 0, before |-> 0,
     update |-> FALSE, code |-> 0]

\* #pragma omp for over 0..n-1: nothing started
Todo(n) == [i \in 0..(n - 1) |-> "todo"]
NoLocs(n) == [i \in 0..(n - 1) |-> NoLoc]

Running == {i \in DOMAIN iter : iter[i] = "run"}

\* an iteration starts on a thread of the team that is free
CanStart(i) ==
    /\ i \in DOMAIN iter
    /\ iter[i] = "todo"
    /\ Cardinality(Running) < NumThreads

\* the implicit barrier at the end of an OpenMP loop
LoopOver == \A i \in DOMAIN iter : iter[i] = "done"

\* lines 154, 213, 336: the comparison with the best value so far
ExceedsOrEquals(v, best) == v >= best
Exceeds(v, best) == v > best

\* lines 150-158 (and 209-217, 329-341): bestClass and bestClassVal after
\* the classes below n
RECURSIVE BestUpTo(_, _)
BestUpTo(p, n) ==
    IF n = 0
    THEN [bestClass |-> 0, bestClassVal |-> 0]
    ELSE LET b == BestUpTo(p, n - 1)
         IN  IF Exceeds(p[n - 1], b.bestClassVal)
             THEN [bestClass |-> n - 1, bestClassVal |-> p[n - 1]]
             ELSE b

BestClass(p) == BestUpTo(p, Len(TrainingLabels)).bestClass

\* lines 160, 219: the element of base->labels iteration i writes
LabelSlotShared(i) == 0
LabelSlot(i) == i

\* line 133 and the dispatch on regularization of lines 135-355
EnterNone ==
    /\ cpc = "entry"
    /\ regularization = "None"
    /\ baseLabels' = [i \in BasePts |-> 0]
    /\ iter' = Todo(NumBase)
    /\ loc' = NoLocs(NumBase)
    /\ probsOf' = [i \in BasePts |-> UnsetProbs]
    /\ cpc' = "none"
    /\ UNCHANGED <<argVars, values, gcVars, wbVars, tvars>>

EnterLocalSmooth ==
    /\ cpc = "entry"
    /\ regularization = "LocalSmooth"
    /\ baseLabels' = [i \in BasePts |-> 0]
    /\ values' = [j \in Classes |-> [i \in BasePts |-> ValuesInit]]
    /\ iter' = Todo(NumBase)
    /\ loc' = NoLocs(NumBase)
    /\ cpc' = "ls1"
    /\ UNCHANGED <<argVars, probsOf, gcVars, wbVars, tvars>>

EnterGraphCut ==
    /\ cpc = "entry"
    /\ regularization = "GraphCut"
    /\ baseLabels' = [i \in BasePts |-> 0]
    /\ cpc' = "gcTiling"
    /\ UNCHANGED <<argVars, ompVars, values, gcVars, wbVars, tvars>>

\* line 354
ThrowInvalid ==
    /\ cpc = "entry"
    /\ regularization \notin {"None", "LocalSmooth", "GraphCut"}
    /\ baseLabels' = [i \in BasePts |-> 0]
    /\ cpc' = "thrown"
    /\ UNCHANGED <<argVars, ompVars, values, gcVars, wbVars, tvars>>

\* lines 142-147: an iteration of the None sweep gathers the features of
\* point i and evaluates them
NoneBegin ==
    /\ cpc = "none"
    /\ \E i \in BasePts :
          /\ CanStart(i)
          /\ \E pr \in ProbVectors :
                /\ loc' = [loc EXCEPT ![i] = [NoLoc EXCEPT !.probs = pr]]
                /\ probsOf' = [probsOf EXCEPT ![i] = pr]
          /\ iter' = [iter EXCEPT ![i] = "run"]
    /\ UNCHANGED <<cpc, argVars, baseLabels, values, gcVars, wbVars, tvars>>

\* lines 149-160: it stores the best class
NoneEnd ==
    /\ cpc = "none"
    /\ \E i \in Running :
          /\ baseLabels' =
                [baseLabels EXCEPT ![LabelSlot(i)] = BestClass(loc[i].probs)]
          /\ loc' = [loc EXCEPT ![i] = NoLoc]
          /\ iter' = [iter EXCEPT ![i] = "done"]
    /\ UNCHANGED <<cpc, argVars, probsOf, values, gcVars, wbVars, tvars>>

\* lines 162-164: the sweep is over
NoneDone ==
    /\ cpc = "none"
    /\ LoopOver
    /\ iter' = <<>>
    /\ loc' = <<>>
    /\ probsOf' = <<>>
    /\ cpc' = "prep"
    /\ UNCHANGED <<argVars, baseLabels, values, gcVars, wbVars, tvars>>

\* lines 175-180: an iteration of Local-Smooth pass 1 evaluates point i
Ls1Begin ==
    /\ cpc = "ls1"
    /\ \E i \in BasePts :
          /\ CanStart(i)
          /\ \E pr \in ProbVectors :
                loc' = [loc EXCEPT ![i] = [NoLoc EXCEPT !.probs = pr]]
          /\ iter' = [iter EXCEPT ![i] = "run"]
    /\ UNCHANGED <<cpc, argVars, baseLabels, probsOf, values, gcVars, wbVars,
                   tvars>>

\* lines 182-184: it fills column i of the matrix
Ls1End ==
    /\ cpc = "ls1"
    /\ \E i \in Running :
          /\ values' =
                [j \in Classes |-> [values[j] EXCEPT ![i] = loc[i].probs[j]]]
          /\ loc' = [loc EXCEPT ![i] = NoLoc]
          /\ iter' = [iter EXCEPT ![i] = "done"]
    /\ UNCHANGED <<cpc, argVars, baseLabels, probsOf, gcVars, wbVars, tvars>>

\* lines 187-198: pass 1 is over, pass 2 starts
Ls1Done ==
    /\ cpc = "ls1"
    /\ LoopOver
    /\ iter' = Todo(NumBase)
    /\ loc' = NoLocs(NumBase)
    /\ cpc' = "ls2"
    /\ UNCHANGED <<argVars, baseLabels, probsOf, values, gcVars, wbVars,
                   tvars>>

\* what radiusSearch can find around point i: nothing (a radius below 0),
\* or i and any other points
RadiusMatches(i) == {{}} \cup {S \cup {i} : S \in SUBSET BasePts}

RECURSIVE SumOver(_, _)
SumOver(row, S) ==
    IF S = {} THEN 0
    ELSE LET n == CHOOSE n \in S : TRUE
         IN  row[n] + SumOver(row, S \ {n})

\* lines 209-217: the class of the largest mean.  The means are the sums
\* divided by one count, so they compare as the sums do; with no match they
\* are 0/0, which exceeds nothing.
MeanBest(sums, numMatches) ==
    IF numMatches = 0 THEN 0 ELSE BestClass(sums)

\* lines 199-207: an iteration of pass 2 sums the matrix over the
\* neighbours of point i
Ls2Begin ==
    /\ cpc = "ls2"
    /\ \E i \in BasePts :
          /\ CanStart(i)
          /\ \E m \in RadiusMatches(i) :
                loc' = [loc EXCEPT ![i] =
                           [NoLoc EXCEPT
                               !.numMatches = Cardinality(m),
                               !.probs = [j \in Classes |->
                                             SumOver(values[j], m)]]]
          /\ iter' = [iter EXCEPT ![i] = "run"]
    /\ UNCHANGED <<cpc, argVars, baseLabels, probsOf, values, gcVars, wbVars,
                   tvars>>

\* lines 209-219: it stores the class of the largest mean
Ls2End ==
    /\ cpc = "ls2"
    /\ \E i \in Running :
          /\ baseLabels' =
                [baseLabels EXCEPT
                    ![LabelSlot(i)] =
                        MeanBest(loc[i].probs, loc[i].numMatches)]
          /\ loc' = [loc EXCEPT ![i] = NoLoc]
          /\ iter' = [iter EXCEPT ![i] = "done"]
    /\ UNCHANGED <<cpc, argVars, probsOf, values, gcVars, wbVars, tvars>>

\* lines 222-223: pass 2 is over; the matrix goes out of scope
Ls2Done ==
    /\ cpc = "ls2"
    /\ LoopOver
    /\ iter' = <<>>
    /\ loc' = <<>>
    /\ values' = <<>>
    /\ cpc' = "prep"
    /\ UNCHANGED <<argVars, baseLabels, probsOf, gcVars, wbVars, tvars>>

(***************************************************************************)
(* classifyData: Graph-Cut.                                                *)
(***************************************************************************)
\* -std::log(value) of line 334: infinite for 0, else finite and falling as
\* the value rises
NegLog(v) == [inf |-> v = 0, mag |-> IF v = 0 THEN 0 ELSE MaxProb - v]
ZeroCost == [inf |-> FALSE, mag |-> 0]

\* what knnSearch can find: the neighbors nearest points, which are all
\* the points of a cloud of no more than neighbors points
KnnResults ==
    {S \in SUBSET BasePts : Cardinality(S) = Min(neighbors, NumBase)}

\* lines 267-281: inputToIndices and indices after the points below n, the
\* first tile whose box contains point i being tileOf[i]
RECURSIVE AssignUpTo(_, _, _)
AssignUpTo(tileOf, tiles, n) ==
    IF n = 0
    THEN [inputToIndices |-> <<>>, indices |-> [t \in 0..(tiles - 1) |-> <<>>]]
    ELSE LET st == AssignUpTo(tileOf, tiles, n - 1)
             i == n - 1
             idx == tileOf[i]
         IN  [inputToIndices |-> Append(st.inputToIndices, <<i, idx>>),
              indices |-> [st.indices EXCEPT ![idx] = Append(@, i)]]

\* lines 229-281: the tiling, and the tile of every point
GcTiling ==
    /\ cpc = "gcTiling"
    /\ \E nbX \in NbXChoices :
          LET nbY == (minSubdivisions \div nbX) + 1
              tiles == nbX * nbY
          IN  /\ nb' = tiles
              /\ \E tileOf \in [BasePts -> 0..(tiles - 1)] :
                    LET st == AssignUpTo(tileOf, tiles, NumBase)
                    IN  /\ indices' = st.indices
                        \* a vector indexed from 0
                        /\ inputToIndices' =
                              [i \in BasePts |-> st.inputToIndices[i + 1]]
    /\ sub' = 0
    /\ cpc' = "gcTile"
    /\ UNCHANGED <<argVars, baseLabels, ompVars, values, tj, edges,
                   edgeWeights, probabilityMatrix, assignedLabel, knnOf,
                   wbVars, tvars>>

\* lines 287-290: an empty tile is passed over
GcSkipEmpty ==
    /\ cpc = "gcTile"
    /\ sub < nb
    /\ indices[sub] = <<>>
    /\ sub' = sub + 1
    /\ UNCHANGED <<cpc, argVars, baseLabels, ompVars, values, nb, indices,
                   inputToIndices, tj, edges, edgeWeights, probabilityMatrix,
                   assignedLabel, knnOf, wbVars, tvars>>

\* lines 292-299: the graph of a tile with points
GcStartTile ==
    /\ cpc = "gcTile"
    /\ sub < nb
    /\ indices[sub] # <<>>
    /\ LET n == Len(indices[sub])
       IN  /\ probabilityMatrix' =
                 [k \in Classes |-> [j \in 0..(n - 1) |-> ZeroCost]]
           /\ assignedLabel' = [j \in 0..(n - 1) |-> 0]
    /\ edges' = <<>>
    /\ edgeWeights' = <<>>
    /\ knnOf' = {}
    /\ tj' = 0
    /\ cpc' = "gcPoint"
    /\ UNCHANGED <<argVars, baseLabels, ompVars, values, nb, indices,
                   inputToIndices, sub, wbVars, tvars>>

\* lines 312-313: the test that emits an edge from tile point j of tile s
\* to a neighbour whose inputToIndices entry is e
EdgeTest(s, j, e) == s = e[1] /\ j # e[2]

\* lines 308-319: the edges of tile point j after the neighbours below n
RECURSIVE EdgesUpTo(_, _, _)
EdgesUpTo(j, nbrs, n) ==
    IF n = 0 THEN <<>>
    ELSE LET rest == EdgesUpTo(j, nbrs, n - 1)
             neighbor == n - 1
         IN  IF neighbor \in nbrs /\ EdgeTest(sub, j, inputToIndices[neighbor])
             THEN Append(rest, <<j, inputToIndices[neighbor][2]>>)
             ELSE rest

\* lines 299-343: a point of the tile: its edges, its unary costs, its
\* initial label
GcPoint ==
    /\ cpc = "gcPoint"
    /\ tj < Len(indices[sub])
    /\ \E nbrs \in KnnResults :
          LET new == EdgesUpTo(tj, nbrs, NumBase)
          IN  /\ edges' = edges \o new
              /\ edgeWeights' =
                    edgeWeights \o [k \in 1..Len(new) |-> strength]
              /\ knnOf' = nbrs
    /\ \E pr \in ProbVectors :
          /\ probabilityMatrix' =
                [k \in Classes |->
                    [probabilityMatrix[k] EXCEPT ![tj] = NegLog(pr[k])]]
          /\ assignedLabel' = [assignedLabel EXCEPT ![tj] = BestClass(pr)]
          /\ probsOf' = pr
    /\ tj' = tj + 1
    /\ UNCHANGED <<cpc, argVars, baseLabels, iter, loc, values, nb, indices,
                   inputToIndices, sub, wbVars, tvars>>

\* alphaExpansionGraphcut (declared at lines 113-117): the labels it can
\* leave for the n points of a tile
AlphaExpansionResults(n) == [0..(n - 1) -> Classes]

\* lines 345-349: the solver, and the labels of the tile written back
GcSolve ==
    /\ cpc = "gcPoint"
    /\ tj = Len(indices[sub])
    /\ \E lab \in AlphaExpansionResults(Len(indices[sub])) :
          baseLabels' =
             [i \in BasePts |->
                 IF \E k \in 1..Len(indices[sub]) : indices[sub][k] = i
                 THEN lab[(CHOOSE k \in 1..Len(indices[sub]) :
                              indices[sub][k] = i) - 1]
                 ELSE baseLabels[i]]
    /\ sub' = sub + 1
    /\ tj' = 0
    /\ edges' = <<>>
    /\ edgeWeights' = <<>>
    /\ probabilityMatrix' = <<>>
    /\ assignedLabel' = <<>>
    /\ knnOf' = {}
    /\ probsOf' = <<>>
    /\ cpc' = "gcTile"
    /\ UNCHANGED <<argVars, iter, loc, values, nb, indices, inputToIndices,
                   wbVars, tvars>>

\* lines 349-352: every tile is done
GcDone ==
    /\ cpc = "gcTile"
    /\ sub = nb
    /\ nb' = 0
    /\ indices' = <<>>
    /\ inputToIndices' = <<>>
    /\ sub' = 0
    /\ cpc' = "prep"
    /\ UNCHANGED <<argVars, baseLabels, ompVars, values, tj, edges,
                   edgeWeights, probabilityMatrix, assignedLabel, knnOf,
                   wbVars, tvars>>

(***************************************************************************)
(* classifyData: the label writeback.                                      *)
(***************************************************************************)
\* line 361: the skip entries that are written to the skip map
InSkipRange(skipClass) == skipClass >= 0 /\ skipClass <= SkipRangeMax

SkipIndices(sk) == {sk[k] : k \in {k \in 1..Len(sk) : InSkipRange(sk[k])}}

\* lines 357-366: the surface labels, the skip map, the code table.  An
\* index at or above the length of the skip map is outside the vector: the
\* write lands in the slack of its last word or, with a checking library,
\* ends the program (PrepAbort).
Prep ==
    /\ cpc = "prep"
    /\ \E uc \in BOOLEAN, uo \in BOOLEAN :
          /\ useColors' = uc
          /\ unclassifiedOnly' = uo
          /\ \E hl \in BOOLEAN :
                /\ hadLabels' = hl
                /\ \E l0 \in IF hl THEN [SurfacePts -> SurfaceLabelValues]
                                   ELSE {<<>>} :
                      /\ labels0' = l0
                      /\ surfLabels' =
                            IF ~uc /\ ~hl THEN [i \in SurfacePts |-> 0]
                            ELSE l0
                /\ hasLabels' = (hl \/ ~uc)
    /\ \E sk \in SkipChoices(labelSet) :
          /\ skip' = sk
          /\ skipMap' = {x \in SkipIndices(sk) : x < SkipMapLen}
          /\ skipAccess' = SkipIndices(sk)
    /\ train2asprsCodes' =
          [v \in 0..SkipRangeMax |-> Train2Asprs(labelSet, v)]
    /\ colors' = [i \in SurfacePts |-> None]
    /\ iter' = Todo(NumSurface)
    /\ loc' = NoLocs(NumSurface)
    /\ cpc' = "wb"
    /\ UNCHANGED <<argVars, baseLabels, probsOf, values, gcVars, tvars>>

\* line 361 with an index outside the skip map, under a library that checks
PrepAbort ==
    /\ cpc = "prep"
    /\ \E sk \in SkipChoices(labelSet) :
          /\ \E x \in SkipIndices(sk) : x >= SkipMapLen
          /\ skip' = sk
          /\ skipAccess' = SkipIndices(sk)
    /\ cpc' = "aborted"
    /\ UNCHANGED <<argVars, baseLabels, ompVars, values, gcVars, useColors,
                   unclassifiedOnly, hasLabels, surfLabels, colors, skipMap,
                   train2asprsCodes, hadLabels, labels0, tvars>>

\* lines 369-387: an iteration of the writeback reads the class of its
\* working-set point and decides whether surface point i is updated.  A
\* read of the skip map outside the vector gives either value, or ends the
\* program (WbAbort).
WbBegin ==
    /\ cpc = "wb"
    /\ \E i \in SurfacePts :
          /\ CanStart(i)
          /\ \E idx \in BasePts :
                LET bestClass == baseLabels[idx]
                    asprsCode == labelSet[bestClass + 1]
                    keep == /\ unclassifiedOnly
                            /\ hasLabels
                            /\ surfLabels[i] # LABEL_UNCLASSIFIED
                IN  /\ \E skipped \in IF asprsCode < SkipMapLen
                                      THEN {asprsCode \in skipMap}
                                      ELSE BOOLEAN :
                          loc' = [loc EXCEPT ![i] =
                                     [NoLoc EXCEPT
                                         !.best = bestClass,
                                         !.before = IF hasLabels
                                                    THEN surfLabels[i]
                                                    ELSE 0,
                                         !.update = ~keep /\ ~skipped,
                                         !.code = asprsCode]]
                    /\ skipAccess' = skipAccess \cup {asprsCode}
          /\ iter' = [iter EXCEPT ![i] = "run"]
    /\ UNCHANGED <<cpc, argVars, baseLabels, probsOf, values, gcVars,
                   useColors, unclassifiedOnly, hasLabels, surfLabels, colors,
                   skip, skipMap, train2asprsCodes, hadLabels, labels0, tvars>>

\* line 387 with an index outside the skip map, under a library that checks
WbAbort ==
    /\ cpc = "wb"
    /\ \E i \in SurfacePts :
          /\ CanStart(i)
          /\ \E idx \in BasePts :
                /\ labelSet[baseLabels[idx] + 1] >= SkipMapLen
                /\ skipAccess' =
                      skipAccess \cup {labelSet[baseLabels[idx] + 1]}
    /\ cpc' = "aborted"
    \* the process is gone, and its memory with it
    /\ iter' = <<>>
    /\ loc' = <<>>
    /\ surfLabels' = <<>>
    /\ colors' = <<>>
    /\ labels0' = <<>>
    /\ UNCHANGED <<argVars, baseLabels, probsOf, values, gcVars, useColors,
                   unclassifiedOnly, hasLabels, skip, skipMap,
                   train2asprsCodes, hadLabels, tvars>>

\* lines 397, 402: the element of pointSet.labels iteration i writes
SurfaceSlot(i) == i

\* line 402: the code written to a point that is not updated
RevertedKept(code) == code
Reverted(code) == train2asprsCodes[code]

\* lines 389-403: it writes the colour or the code of surface point i
WbEnd ==
    /\ cpc = "wb"
    /\ \E i \in Running :
          /\ IF loc[i].update
             THEN IF useColors
                  THEN /\ colors' = [colors EXCEPT ![i] = loc[i].best]
                       /\ UNCHANGED surfLabels
                  ELSE /\ surfLabels' =
                             [surfLabels EXCEPT ![SurfaceSlot(i)] = loc[i].code]
                       /\ UNCHANGED colors
             ELSE IF hasLabels
                  THEN /\ surfLabels' =
                             [surfLabels EXCEPT
                                 ![SurfaceSlot(i)] = Reverted(surfLabels[i])]
                       /\ UNCHANGED colors
                  ELSE UNCHANGED <<surfLabels, colors>>
          /\ loc' = [loc EXCEPT ![i] = NoLoc]
          /\ iter' = [iter EXCEPT ![i] = "done"]
    /\ UNCHANGED <<cpc, argVars, baseLabels, probsOf, values, gcVars,
                   useColors, unclassifiedOnly, hasLabels, skip, skipMap,
                   train2asprsCodes, hadLabels, labels0, skipAccess, tvars>>

\* lines 404-411: the writeback is over
WbDone ==
    /\ cpc = "wb"
    /\ LoopOver
    /\ iter' = <<>>
    /\ loc' = <<>>
    /\ cpc' = "done"
    /\ UNCHANGED <<argVars, baseLabels, probsOf, values, gcVars, wbVars,
                   tvars>>

(***************************************************************************)
(* Specifications.                                                         *)
(***************************************************************************)
\* getTrainingData is not running
TrainIdle ==
    /\ tpc = "idle"
    /\ nfiles = None
    /\ fi = 0
    /\ startResolution = StartResSentinel
    /\ maxSamples = None
    /\ asprsClasses = <<>>
    /\ trainSubset = FALSE
    /\ trainClass = {}
    /\ pointSet = NoPointSet
    /\ count = ZeroCount
    /\ sampled = {}
    /\ idxes = <<>>
    /\ samplesPerLabel = 0
    /\ added = ZeroCount
    /\ pos = 0
    /\ initCalls = 0
    /\ initAt = None
    /\ storeCalls = ZeroCount
    /\ storeBeforeInit = FALSE
    /\ scalesLog = <<>>
    /\ startRes0 = StartResSentinel
    /\ firstLabelled = None
    /\ firstSpacing = None

\* the variables of classifyData other than its position and arguments,
\* before line 133
ClassifyFresh ==
    /\ baseLabels = <<>>
    /\ iter = <<>>
    /\ loc = <<>>
    /\ probsOf = <<>>
    /\ values = <<>>
    /\ nb = 0
    /\ indices = <<>>
    /\ inputToIndices = <<>>
    /\ sub = 0
    /\ tj = 0
    /\ edges = <<>>
    /\ edgeWeights = <<>>
    /\ probabilityMatrix = <<>>
    /\ assignedLabel = <<>>
    /\ knnOf = {}
    /\ useColors = FALSE
    /\ unclassifiedOnly = FALSE
    /\ hasLabels = FALSE
    /\ surfLabels = <<>>
    /\ colors = <<>>
    /\ skip = <<>>
    /\ skipMap = {}
    /\ train2asprsCodes = <<>>
    /\ hadLabels = FALSE
    /\ labels0 = <<>>
    /\ skipAccess = {}

\* classifyData is not running
ClassifyIdle ==
    /\ cpc = "idle"
    /\ regularization = "None"
    /\ labelSet = TrainingLabels
    /\ ClassifyFresh

ClassifyInit ==
    /\ cpc = "entry"
    /\ regularization \in RegularizationChoices
    /\ labelSet \in LabelSets
    /\ ClassifyFresh

InitTrain == TrainInit /\ ClassifyIdle

InitClassify == ClassifyInit /\ TrainIdle

NextClassify ==
    \/ EnterNone
    \/ EnterLocalSmooth
    \/ EnterGraphCut
    \/ ThrowInvalid
    \/ NoneBegin
    \/ NoneEnd
    \/ NoneDone
    \/ Ls1Begin
    \/ Ls1End
    \/ Ls1Done
    \/ Ls2Begin
    \/ Ls2End
    \/ Ls2Done
    \/ GcTiling
    \/ GcSkipEmpty
    \/ GcStartTile
    \/ GcPoint
    \/ GcSolve
    \/ GcDone
    \/ Prep
    \/ PrepAbort
    \/ WbBegin
    \/ WbAbort
    \/ WbEnd
    \/ WbDone

\* getTrainingData, from its call to its return
SpecTrain == InitTrain /\ [][NextTrain]_vars

\* classifyData, from its call to its return
SpecClassify == InitClassify /\ [][NextClassify]_vars

(***************************************************************************)
(* Claims about getTrainingData.                                           *)
(***************************************************************************)
\* the number of deduplicated candidates of class c
CandidatesOf(c) == Cardinality({k \in 1..Len(idxes) : idxes[k][2] = c})

\* min(min over the non-empty classes of their candidates, maxSamples)
BalancedQuota ==
    LET nonEmpty == {c \in Classes : CandidatesOf(c) > 0}
        least == CHOOSE n \in {CandidatesOf(c) : c \in nonEmpty} :
                    \A c \in nonEmpty : n <= CandidatesOf(c)
    IN  IF nonEmpty = {} THEN maxSamples ELSE Min(least, maxSamples)

\* C1: for every processed file and class c the store calls made with c
\* never exceed min(min non-empty count, maxSamples), and when the walk is
\* over they are exactly min(count[c], that quota) for every non-empty
\* class, whatever the shuffle order.
C1_BalancedSampling ==
    /\ tpc \in {"emit", "release"} =>
          \A c \in Classes : storeCalls[c] <= BalancedQuota
    /\ tpc = "release" =>
          \A c \in Classes :
             CandidatesOf(c) > 0 =>
                storeCalls[c] = Min(CandidatesOf(c), BalancedQuota)

\* a file whose walk is over, with a class that has more candidates than
\* the quota and another class that fills it
C1_Witness ==
    /\ tpc = "release"
    /\ BalancedQuota > 0
    /\ \E c, d \in Classes :
          /\ CandidatesOf(c) > BalancedQuota
          /\ storeCalls[c] = BalancedQuota
          /\ CandidatesOf(d) > 0
          /\ c # d

\* C2: when some file has labels, init is invoked exactly once, on the
\* first file with labels, and before every store call.
C2_InitOnceOnFirstLabelled ==
    /\ ~storeBeforeInit
    /\ initCalls <= 1
    /\ (tpc = "return" /\ firstLabelled # None) =>
          (initCalls = 1 /\ initAt = firstLabelled)

\* the resolution every computeScales call must have been given when the
\* files' spacing is derived for the entry values in derive
ResolutionKept(derive) ==
    /\ \A k \in 1..Len(scalesLog) :
          scalesLog[k] = IF derive THEN firstSpacing ELSE startRes0
    /\ ~derive => startResolution = startRes0
    /\ (derive /\ Len(scalesLog) > 0) => startResolution = firstSpacing
    /\ (derive /\ Len(scalesLog) = 0) => startResolution = startRes0

\* C3 as stated: an entry value <= 0 is replaced by the spacing of the
\* first file with labels, kept and used for every later file; an entry
\* value > 0 is never modified.
C3_DeriveWhenNonPositive == ResolutionKept(startRes0 <= 0)

\* C3 as amended: an entry value equal to the sentinel -1.0 is replaced by
\* the spacing of the first file with labels, kept and used for every later
\* file; any other entry value (0 and the other negative values included)
\* is never modified and is the resolution of every scale ladder.
C3_DeriveWhenSentinel == ResolutionKept(startRes0 = StartResSentinel)

\* the second file with labels has another spacing than the first, and its
\* scales were built
C3_Witness ==
    /\ startRes0 = StartResSentinel
    /\ tpc = "enumerate"
    /\ Len(scalesLog) = 2
    /\ pointSet.spacing # firstSpacing

\* the surface points that map to idx and satisfy keep
Occurrences(idx, keep(_)) ==
    {i \in 0..(pointSet.count - 1) : pointSet.pointMap[i] = idx /\ keep(i)}

Lowest(S) == CHOOSE i \in S : \A j \in S : i <= j

Labelled(i) == pointSet.labels[i] # LABEL_UNASSIGNED

Accepted(i) ==
    /\ pointSet.labels[i] # LABEL_UNASSIGNED
    /\ trainSubset => pointSet.labels[i] \in trainClass

\* each working-set index is a candidate at most once, with the class of
\* its lowest surface point satisfying keep
DedupByFirst(keep(_)) ==
    /\ \A a, b \in 1..Len(idxes) : idxes[a][1] = idxes[b][1] => a = b
    /\ \A k \in 1..Len(idxes) :
          /\ Occurrences(idxes[k][1], keep) # {}
          /\ idxes[k][2] =
                pointSet.labels[Lowest(Occurrences(idxes[k][1], keep))]

\* C6 as stated: each working-set index appears at most once among the
\* candidates, with the class of the first surface point that maps to it
\* and has a label other than LABEL_UNASSIGNED, also with a training subset.
C6_ClassOfFirstLabelled == tpc = "quota" => DedupByFirst(Labelled)

\* C6 as amended: each working-set index appears at most once among the
\* candidates, with the class of the first surface point that maps to it,
\* has a label other than LABEL_UNASSIGNED and, when a training subset is
\* requested, has a class of the subset.
C6_ClassOfFirstAccepted == tpc = "quota" => DedupByFirst(Accepted)

\* a candidate whose working-set point is mapped to by two labelled
\* surface points of different classes
C6_Witness ==
    /\ tpc = "quota"
    /\ \E k \in 1..Len(idxes) :
          \E i, j \in Occurrences(idxes[k][1], Accepted) :
             pointSet.labels[i] # pointSet.labels[j]

(***************************************************************************)
(* Claims about classifyData.                                              *)
(***************************************************************************)
\* the class of the largest probability, the smallest such class on a tie
ArgmaxSmallest(p) ==
    CHOOSE c \in Classes :
       /\ \A d \in Classes : p[d] <= p[c]
       /\ \A d \in Classes : d < c => p[d] < p[c]

\* C4: with regularization None, base.labels[i] of every evaluated point i
\* is the argmax over the classes of the vector the evaluator returned for
\* i, the smallest class on a tie (class 0 for an all-equal or all-zero
\* vector), and so a class of 0..L-1.
C4_NoneArgmax ==
    cpc = "none" =>
       \A i \in BasePts :
          iter[i] = "done" =>
             /\ baseLabels[i] = ArgmaxSmallest(probsOf[i])
             /\ baseLabels[i] \in Classes

\* the sweep is over; one point had a tie above zero between two classes,
\* another a largest value at a class other than 0
C4_Witness ==
    /\ cpc = "none"
    /\ LoopOver
    /\ \E i \in BasePts :
          \E c, d \in Classes :
             c < d /\ probsOf[i][c] = probsOf[i][d] /\ probsOf[i][c] > 0
    /\ \E i \in BasePts : baseLabels[i] > 0

\* no index of the skip map that the call forms is outside the map
SkipMapCovers ==
    /\ \A k \in 1..Len(labelSet) : labelSet[k] < SkipMapLen
    /\ \A s \in 1..Len(skip) : InSkipRange(skip[s]) => skip[s] < SkipMapLen

\* every ASPRS code of the label set is an entry of skip
SkipsEveryCode ==
    \A k \in 1..Len(labelSet) : \E s \in 1..Len(skip) : skip[s] = labelSet[k]

TileOf(p) == inputToIndices[p][2]
PosInTile(p) ==
    (CHOOSE k \in 1..Len(indices[TileOf(p)]) : indices[TileOf(p)][k] = p) - 1

\* C7: the edges emitted for the tile point at position j are (j, p) for
\* exactly the neighbours that are in the same tile at a position p other
\* than j, each with weight 0.2; no edge has an endpoint outside 0..n-1.
C7_EdgesTileLocal ==
    (cpc = "gcPoint" /\ tj > 0) =>
       LET j == tj - 1
           n == Len(indices[sub])
       IN  /\ {edges[k] : k \in {k \in 1..Len(edges) : edges[k][1] = j}} =
                 {<<j, PosInTile(p)>> :
                     p \in {p \in knnOf :
                               TileOf(p) = sub /\ PosInTile(p) # j}}
           /\ \A k \in 1..Len(edges) :
                 /\ edges[k][1] \in 0..(n - 1)
                 /\ edges[k][2] \in 0..(n - 1)
           /\ Len(edgeWeights) = Len(edges)
           /\ \A k \in 1..Len(edgeWeights) : edgeWeights[k] = strength

\* the shared elements iteration i of the running loop writes
WritesOf(i) ==
    CASE cpc = "none" -> {<<"base.labels", LabelSlot(i), 0>>}
      [] cpc = "ls1" -> {<<"values", j, i>> : j \in Classes}
      [] cpc = "ls2" -> {<<"base.labels", LabelSlot(i), 0>>}
      [] cpc = "wb" -> {<<"labels", SurfaceSlot(i), 0>>, <<"colors", i, 0>>}
      [] OTHER -> {}

\* the shared elements it can read
ReadsOf(i) ==
    CASE cpc = "ls2" -> {<<"values", j, n>> : j \in Classes, n \in BasePts}
      [] cpc = "wb" ->
            {<<"base.labels", n, 0>> : n \in BasePts}
               \cup {<<"labels", SurfaceSlot(i), 0>>}
      [] OTHER -> {}

\* C8: in the None sweep, both Local-Smooth passes and the writeback, two
\* iterations in flight never write the same element of base.labels, of the
\* probability matrix or of the surface labels and colours, and none writes
\* an element another can read; what a running iteration has read is still
\* what the shared array holds, every finished iteration has left the value
\* computed from its own point (so the labels do not depend on the
\* interleaving), and pass 2 runs only when pass 1 has written every entry
\* of the matrix.
C8_NoRace ==
    /\ \A a, b \in Running :
          a # b => WritesOf(a) \cap (WritesOf(b) \cup ReadsOf(b)) = {}
    /\ cpc = "none" =>
          \A i \in BasePts :
             iter[i] = "done" => baseLabels[i] = BestClass(probsOf[i])
    /\ cpc = "ls1" =>
          \A i \in BasePts : \A j \in Classes :
             (values[j][i] # ValuesInit) <=> (iter[i] = "done")
    /\ cpc = "ls2" =>
          /\ \A i \in BasePts : \A j \in Classes : values[j][i] # ValuesInit
          /\ \A i \in Running :
                \E m \in RadiusMatches(i) :
                   /\ loc[i].numMatches = Cardinality(m)
                   /\ \A j \in Classes : loc[i].probs[j] = SumOver(values[j], m)
    /\ cpc = "wb" =>
          \A i \in SurfacePts :
             /\ (i \in Running /\ hasLabels) => loc[i].before = surfLabels[i]
             /\ (iter[i] = "todo" /\ hadLabels) => surfLabels[i] = labels0[i]
             /\ iter[i] # "done" => colors[i] = None

\* as many iterations of the writeback in flight as the team has threads,
\* one of them about to update its point
C8_Witness ==
    /\ cpc = "wb"
    /\ Cardinality(Running) = NumThreads
    /\ \E i \in Running : loc[i].update
    /\ \E i \in Running : ~loc[i].update

\* C9: the unary cost stored for a class and a tile point is finite, also
\* when the evaluator returned 0 for the class, and the initial label of the
\* point is the class of its largest probability.
C9_UnaryFinite ==
    (cpc = "gcPoint" /\ tj > 0) =>
       /\ \A k \in Classes : \A j \in 0..(tj - 1) :
             ~probabilityMatrix[k][j].inf
       /\ assignedLabel[tj - 1] = ArgmaxSmallest(probsOf)

\* C10: every index used to write or to read the skip map is below the
\* length of the map.
C10_SkipIndexInBounds == \A x \in skipAccess : x < SkipMapLen
====
